---- MODULE Spec2Model ----
(***************************************************************************)
(* A model of the nfa library (src/nfa/nfa.py): states of a                *)
(* nondeterministic finite automaton as dictionaries from transition       *)
(* labels to successor states, the lazy and the table-driven matcher,      *)
(* compilation into a transition table and conversion into a DFA.          *)
(*                                                                         *)
(* A state (an nfa instance) is a node of the heap `nodes`, identified by  *)
(* its index (its id()).  A node holds its dictionary as the sequence of   *)
(* its items in insertion order, the attribute _accept and the attributes  *)
(* _compiled and _states that compile() attaches.  A dictionary value is a *)
(* state, a list (an object of the heap `lists`, shared by reference) or a *)
(* tuple (immutable, held inline).                                         *)
(***************************************************************************)
EXTENDS Integers, Sequences, FiniteSets, TLC

\* ------------------------------------------------------------------ bounds

\* Nodes of a graph drawn for the sampled matches (SpecFn).
GraphNodes == 3
\* Successor references of a drawn graph.
MaxEdges == 2
\* Nodes of a drawn graph that carry an _accept attribute.
MaxOverrides == 1
\* Length of an input string.
MaxInput == 2
\* Operations applied to the heap after its construction (Spec).
MaxSteps == 2
\* States (nfa instances) of the heap of Spec.
MaxNodes == 3
\* Length of a list held as a dictionary value.
MaxList == 3

\* ------------------------------------------------------------------ labels

\* The exported object epsilon, and the user symbols used as labels and inputs.
Epsilon == "epsilon"
Symbols == {"a", "b"}
Labels == Symbols \cup {Epsilon}

\* A symbol that is an instance of object and of no other class: object().
Object == "object()"

\* type(other), for the labels and symbols of the model.
TypeOf(other) ==
  IF other = Epsilon THEN "epsilon" ELSE IF other = Object THEN "object" ELSE "str"

\* epsilon.__eq__, to which `symbol == epsilon` and `epsilon == symbol` both
\* come: isinstance(self, type(other)), self being an instance of the class
\* epsilon and so of its base class object.
IsEpsilon(symbol) == TypeOf(symbol) \in {"epsilon", "object"}

\* Results of a match other than a length: None, and the ValueError raised
\* for an epsilon in the input.
None == -1
ValueError == -2

\* ------------------------------------------------------------------ values

NfaValue(n) == [kind |-> "nfa", ref |-> n, elts |-> <<>>]
ListValue(l) == [kind |-> "list", ref |-> l, elts |-> <<>>]
TupleValue(ns) == [kind |-> "tuple", ref |-> 0, elts |-> ns]

\* A table as compile() builds it: acc holds the keys id -> None, tr the
\* members of the sets under the keys (symbol, id) as <<symbol, id, target>>.
EmptyTable == [acc |-> {}, tr |-> {}]

\* nfa(): an empty dictionary with no attribute set.
EmptyNode ==
  [items |-> <<>>, accept |-> "unset",
   hasCompiled |-> FALSE, compiled |-> EmptyTable,
   hasStates |-> FALSE, states |-> <<>>]

InSeq(s, e) == \E i \in 1..Len(s) : s[i] = e

Range(s) == {s[i] : i \in 1..Len(s)}

RECURSIVE AddNew(_, _)
\* d[id(e)] = e for each e of t in turn: an insertion-ordered dictionary
\* keyed by identity keeps the first occurrence.
AddNew(s, t) ==
  IF t = <<>> THEN s
  ELSE AddNew(IF InSeq(s, Head(t)) THEN s ELSE Append(s, Head(t)), Tail(t))

\* The position of key in a dictionary's items, 0 when absent.
KeyIndex(items, key) ==
  IF \E i \in 1..Len(items) : items[i].key = key
  THEN CHOOSE i \in 1..Len(items) : items[i].key = key
  ELSE 0

Keys(items) == [i \in 1..Len(items) |-> items[i].key]

\* [v] if isinstance(v, nfa) else v
Elems(h, v) ==
  IF v.kind = "nfa" THEN <<v.ref>>
  ELSE IF v.kind = "list" THEN h.lists[v.ref]
  ELSE v.elts

\* nfa.__matmul__: the states one transition labelled `argument` away.
Matmul(h, n, argument) ==
  LET items == h.nodes[n].items
      i == KeyIndex(items, argument)
  IN IF i = 0 THEN <<>> ELSE Elems(h, items[i].val)

\* Acceptance by the number of transitions alone, whatever the override.
AcceptingWithoutOverride(h, n) == Len(h.nodes[n].items) = 0

\* nfa.__bool__: whether the state is an accepting state.
Accepting(h, n) ==
  IF h.nodes[n].accept = "unset"
  THEN Len(h.nodes[n].items) = 0
  ELSE h.nodes[n].accept = "accept"

\* ----------------------------------------------------------------- closure

RECURSIVE ClosurePass(_, _, _, _)
\* One sweep `for nfa_ in list(nfas.values())` over the snapshot snap.
ClosurePass(h, snap, i, nfas) ==
  IF i > Len(snap) THEN nfas
  ELSE ClosurePass(h, snap, i + 1, AddNew(nfas, Matmul(h, snap[i], Epsilon)))

RECURSIVE ClosureLoop(_, _)
\* `while cont`: sweep until a sweep adds nothing.
ClosureLoop(h, nfas) ==
  LET next == ClosurePass(h, nfas, 1, nfas)
  IN IF next = nfas THEN nfas ELSE ClosureLoop(h, next)

\* A closure that sweeps once: the epsilon successors of the state alone.
ClosureOnePass(h, n) == ClosurePass(h, <<n>>, 1, <<n>>)

\* nfa.__mod__ with epsilon: the states reachable via epsilon transitions.
Closure(h, n) == ClosureLoop(h, <<n>>)

RECURSIVE ModTargetsDirect(_, _, _, _)
\* The targets themselves in place of their epsilon closures.
ModTargetsDirect(h, targets, j, seq) ==
  IF j > Len(targets) THEN seq
  ELSE ModTargetsDirect(h, targets, j + 1, AddNew(seq, <<targets[j]>>))

RECURSIVE ModTargets(_, _, _, _)
\* for nfa__ in nfa_ @ argument: for nfa___ in nfa__ % epsilon, from the j-th
\* target on.
ModTargets(h, targets, j, seq) ==
  IF j > Len(targets) THEN seq
  ELSE ModTargets(h, targets, j + 1, AddNew(seq, Closure(h, targets[j])))

RECURSIVE ModEach(_, _, _, _, _)
\* for nfa_ in self % epsilon: ..., from the i-th state of the closure on.
ModEach(h, closure, argument, i, seq) ==
  IF i > Len(closure) THEN seq
  ELSE ModEach(h, closure, argument, i + 1,
               ModTargets(h, Matmul(h, closure[i], argument), 1, seq))

\* nfa.__mod__: self % argument.
Mod(h, self, argument) ==
  IF IsEpsilon(argument) THEN Closure(h, self)
  ELSE ModEach(h, Closure(h, self), argument, 1, <<>>)

\* ----------------------------------------------------------------- compile

RECURSIVE NodeEdges(_, _, _, _)
\* `for symbol in nfa__: if not symbol == epsilon: for nfa_ in nfa__ @ symbol`:
\* the pairs <<symbol, nfa_>> in the order the loops meet them.
NodeEdges(h, v, i, out) ==
  LET items == h.nodes[v].items
  IN IF i > Len(items) THEN out
     ELSE NodeEdges(h, v, i + 1,
            IF IsEpsilon(items[i].key) THEN out
            ELSE out \o [j \in 1..Len(Elems(h, items[i].val)) |->
                           <<items[i].key, Elems(h, items[i].val)[j]>>])

\* The transitions of the state itself, those of the other states of its
\* closure left out.
OwnEdges(h, closure, i, out) == NodeEdges(h, closure[1], 1, <<>>)

RECURSIVE ClosureEdges(_, _, _, _)
\* The same pairs for every state nfa__ of a closure, in order.
ClosureEdges(h, closure, i, out) ==
  IF i > Len(closure) THEN out
  ELSE ClosureEdges(h, closure, i + 1, out \o NodeEdges(h, closure[i], 1, <<>>))

RECURSIVE VisitStates(_, _, _, _)
\* The updates of the state dictionary made by the first loop of compile():
\* each state of the closure, followed by the targets of its transitions.
VisitStates(h, closure, i, states) ==
  IF i > Len(closure) THEN states
  ELSE LET edges == NodeEdges(h, closure[i], 1, <<>>)
       IN VisitStates(h, closure, i + 1,
            AddNew(AddNew(states, <<closure[i]>>),
                   [j \in 1..Len(edges) |-> edges[j][2]]))

\* The first loop of compile() on self: the table and the state dictionary
\* c with the entries of self added; edges are the pairs <<symbol, target>>
\* of the transitions that leave the closure.
CompileVisit(h, self, closure, edges, c) ==
  [acc |-> IF \E i \in 1..Len(closure) : Accepting(h, closure[i])
           THEN c.acc \cup {self} ELSE c.acc,
   tr |-> c.tr \cup {<<edges[i][1], self, edges[i][2]>> : i \in 1..Len(edges)},
   states |-> VisitStates(h, closure, 1, c.states)]

RECURSIVE CompileRec(_, _, _, _)
RECURSIVE CompileEach(_, _, _, _, _)
\* nfa.compile with _compiled, _states and _ids supplied: c holds the table
\* (acc, tr) and the state dictionary (states) built so far, ids the path of
\* states under compilation.
CompileRec(h, self, ids, c) ==
  IF InSeq(ids, self) THEN c
  ELSE LET closure == Closure(h, self)
           edges == ClosureEdges(h, closure, 1, <<>>)
           c1 == CompileVisit(h, self, closure, edges, c)
       IN IF edges = <<>> THEN c1
          ELSE CompileEach(h, edges, 1, Append(ids, self), c1)

\* The second loop of compile(): compile every transition target in turn.
CompileEach(h, edges, i, ids, c) ==
  IF i > Len(edges) THEN c
  ELSE CompileEach(h, edges, i + 1, ids, CompileRec(h, edges[i][2], ids, c))

\* The table and state list of a root invocation of compile().
CompileRoot(h, self) ==
  CompileRec(h, self, <<>>, [acc |-> {}, tr |-> {}, states |-> <<self>>])

\* A compilation that keeps the table of a state that has one.
CompileOnce(h, self) ==
  LET c == CompileRoot(h, self)
  IN IF h.nodes[self].hasCompiled THEN h.nodes
     ELSE [h.nodes EXCEPT ![self] =
             [@ EXCEPT !.hasCompiled = TRUE,
                       !.compiled = [acc |-> c.acc, tr |-> c.tr],
                       !.hasStates = TRUE,
                       !.states = c.states]]

\* A compilation that adds to the state list saved before.
CompileAppending(h, self) ==
  LET c == CompileRoot(h, self)
  IN [h.nodes EXCEPT ![self] =
        [@ EXCEPT !.hasCompiled = TRUE,
                  !.compiled = [acc |-> c.acc, tr |-> c.tr],
                  !.hasStates = TRUE,
                  !.states = @ \o c.states]]

\* nfa.compile(): the nodes after self.compile(), with the table and the
\* state list saved as attributes of self.
Compile(h, self) ==
  LET c == CompileRoot(h, self)
  IN [h.nodes EXCEPT ![self] =
        [@ EXCEPT !.hasCompiled = TRUE,
                  !.compiled = [acc |-> c.acc, tr |-> c.tr],
                  !.hasStates = TRUE,
                  !.states = c.states]]

\* A state list that holds the closure of self alone.
StatesOfClosure(h, self) ==
  [h.nodes EXCEPT ![self] =
     [@ EXCEPT !.hasCompiled = TRUE,
               !.compiled = [acc |-> CompileRoot(h, self).acc, tr |-> CompileRoot(h, self).tr],
               !.hasStates = TRUE,
               !.states = Closure(h, self)]]

\* nfa.states(): the nodes after self.states(); the list returned is the
\* attribute _states of self, set by compile() when self has none.
States(h, self) ==
  IF h.nodes[self].hasStates THEN h.nodes ELSE Compile(h, self)

\* A call of symbols() that compiles whether self has a table or not.
SymbolsRecompiling(h, self) == Compile(h, self)

\* A call of symbols() that saves nothing on self.
SymbolsWithoutTable(h, self) == h.nodes

\* nfa.symbols(): the nodes after self.symbols(); the set returned holds the
\* symbols of the keys of the attribute _compiled of self, set by compile()
\* when self has none.
SymbolsNodes(h, self) ==
  IF h.nodes[self].hasCompiled THEN h.nodes ELSE Compile(h, self)

\* ------------------------------------------------------------------- match

\* max(lengths): the greatest length, and the ValueError max() raises for an
\* empty argument.
Max(S) == IF S = {} THEN ValueError ELSE CHOOSE m \in S : \A k \in S : k <= m

\* The shortest length in place of the longest.
MinDefault(S, default) ==
  IF S = {} THEN default ELSE CHOOSE m \in S : \A k \in S : m <= k

\* max(lengths, default=default)
MaxDefault(S, default) == IF S = {} THEN default ELSE Max(S)

\* `all` in place of `any` over the working set.
AllAccepting(t, ids) == \A i \in ids : i \in t.acc

\* `id_ in self._compiled` for some id_ of the working set.
AnyAccepting(t, ids) == \E i \in ids : i \in t.acc

\* A length collected in prefix mode only.
CollectsPrefixOnly(full, more) == ~full

\* not full or not string.has(_length): whether the length of a working set
\* with an accepting state is collected; more is string.has(_length).
Collects(full, more) == ~full \/ ~more

\* One pass of the loop `while True` of the compiled back-end: either it
\* returns a value, or the working set, the position and the lengths with
\* which the next pass starts.
LoopPass(t, ids, string, full, length, lengths) ==
  LET lengths1 == IF AnyAccepting(t, ids) /\ Collects(full, length < Len(string))
                  THEN lengths \cup {length} ELSE lengths
      leave(value) == [returns |-> TRUE, value |-> value, ids |-> ids,
                       length |-> length, lengths |-> lengths1]
  IN IF length < Len(string)
     THEN LET symbol == string[length + 1]
              ids2 == {e[3] : e \in {e \in t.tr : e[1] = symbol /\ e[2] \in ids}}
          IN IF ids2 = {}
             THEN leave(IF full THEN None ELSE MaxDefault(lengths1, None))
             ELSE [returns |-> FALSE, value |-> None, ids |-> ids2,
                   length |-> length + 1, lengths |-> lengths1]
     ELSE IF AnyAccepting(t, ids) THEN leave(Max(lengths1))
          ELSE leave(IF full THEN None ELSE MaxDefault(lengths1, None))

RECURSIVE CallCompiled(_, _, _, _, _, _)
\* The loop of nfa.__call__ over the compiled table t: ids is the working set
\* ids_, length is _length, lengths the lengths collected so far.
CallCompiled(t, ids, string, full, length, lengths) ==
  LET s == LoopPass(t, ids, string, full, length, lengths)
  IN IF s.returns THEN s.value
     ELSE CallCompiled(t, s.ids, string, full, s.length, s.lengths)

\* A choice of back-end made once, by the state on which the match starts.
UsesTableAtStart(h, self, length) == h.nodes[self].hasCompiled /\ length = 0

\* if hasattr(self, "_compiled") and self._compiled is not None: the choice
\* of the back-end, made in every call of __call__, the recursive ones among
\* them.
UsesTable(h, self, length) == h.nodes[self].hasCompiled

RECURSIVE Call(_, _, _, _, _)
\* nfa.__call__(string, full, _length): the length of the match, None, or
\* ValueError.  The back-end is chosen by the attribute _compiled of self.
Call(h, self, string, full, length) ==
  IF UsesTable(h, self, length)
  THEN CallCompiled(h.nodes[self].compiled, {self}, string, full, length, {})
  ELSE
    LET closure == Closure(h, self)
    IN IF length < Len(string)
       THEN LET symbol == string[length + 1]
                here == IF ~full /\ (Accepting(h, self) \/
                                     \E i \in 1..Len(closure) : Accepting(h, closure[i]))
                        THEN {length} ELSE {}
                branches == UNION {Range(Matmul(h, closure[i], symbol)) :
                                     i \in 1..Len(closure)}
                found == {Call(h, nfa__, string, full, length + 1) : nfa__ \in branches}
            IN IF IsEpsilon(symbol) THEN ValueError
               ELSE IF ValueError \in found THEN ValueError
               ELSE MaxDefault(here \cup (found \ {None}),
                               IF Accepting(h, self) /\ ~full THEN 0 ELSE None)
       ELSE IF \E i \in 1..Len(closure) : Accepting(h, closure[i])
            THEN length ELSE None

\* ------------------------------------------------------------------ to_dfa

RECURSIVE SetToSeq(_)
\* The elements of a set in the order an iteration meets them (the order of
\* a Python set is fixed for one run and not observable by the matcher).
SetToSeq(S) ==
  IF S = {} THEN <<>>
  ELSE LET e == CHOOSE e \in S : TRUE IN <<e>> \o SetToSeq(S \ {e})

\* nfa.symbols() once a table is attached: set(e[0] for e in self._compiled
\* if isinstance(e, tuple)).
TableSymbols(t) == {e[1] : e \in t.tr}

\* frozenset([j for i in state if (symbol, i) in t_nfa for j in t_nfa[(symbol, i)]])
Targets(t, state, symbol) ==
  {e[3] : e \in {e \in t.tr : e[1] = symbol /\ e[2] \in state}}

\* One pass of the loop of to_dfa in place of passes until nothing changes.
DfaTableOnePass(t, states, t_dfa) ==
  t_dfa \cup {e \in {<<symbol, state, {e[3] : e \in {e \in t.tr : e[1] = symbol /\ e[2] \in state}}>> :
                       symbol \in {e[1] : e \in t.tr}, state \in states} :
              e[3] # {}}

\* One pass of the loop `while updated` of to_dfa over the sets of ids
\* states: the non-empty entries it adds to t_dfa.
DfaPass(t, states, t_dfa) ==
  {e \in {<<symbol, state, Targets(t, state, symbol)>> :
            symbol \in TableSymbols(t), state \in states} :
     e[3] # {} /\ e \notin t_dfa}

RECURSIVE DfaTable(_, _, _)
\* The loop `while updated` of to_dfa: t_dfa holds the non-empty entries
\* <<symbol, state, state_>> of the deterministic table, states the sets of
\* ids met in the previous pass.
DfaTable(t, states, t_dfa) ==
  LET new == DfaPass(t, states, t_dfa)
  IN IF new = {} THEN t_dfa
     ELSE DfaTable(t, {e[3] : e \in new}, t_dfa \cup new)

\* The states of the DFA: the initial one, and the sources and targets of
\* the deterministic table.
DfaStates(self, t_dfa) ==
  {{self}} \cup {e[2] : e \in t_dfa} \cup {e[3] : e \in t_dfa}

\* A state of the DFA linked to the states of the NFA its transitions name,
\* not to the states of the DFA that stand for them.
DfaNodeUnmapped(t, t_dfa, order, base, state) ==
  LET out == SetToSeq({e \in t_dfa : e[2] = state})
  IN [EmptyNode EXCEPT
        !.accept = IF \E i \in state : i \in t.acc THEN "accept" ELSE "reject",
        !.items = [k \in 1..Len(out) |->
                     [key |-> out[k][1], val |-> TupleValue(SetToSeq(out[k][3]))]]]

\* +nfa() or -nfa() for a state of the DFA, linked to its successors: order
\* is the sequence of the DFA states and base the number of nodes before.
DfaNode(t, t_dfa, order, base, state) ==
  LET out == SetToSeq({e \in t_dfa : e[2] = state})
      Id(target) == base + CHOOSE k \in 1..Len(order) : order[k] = target
  IN [EmptyNode EXCEPT
        !.accept = IF \E i \in state : i \in t.acc THEN "accept" ELSE "reject",
        !.items = [k \in 1..Len(out) |->
                     [key |-> out[k][1], val |-> NfaValue(Id(out[k][3]))]]]

\* The end of to_dfa, after the loop: one new state per set of ids of the
\* deterministic table, appended to the heap nodes1, and the state for {self}.
DfaBuild(nodes1, self, t_nfa, t_dfa) ==
  LET order == SetToSeq(DfaStates(self, t_dfa))
      base == Len(nodes1)
  IN [nodes |-> nodes1 \o [k \in 1..Len(order) |->
                             DfaNode(t_nfa, t_dfa, order, base, order[k])],
      start |-> base + CHOOSE k \in 1..Len(order) : order[k] = {self}]

\* nfa.to_dfa(): the nodes after self.to_dfa() (self compiled when it had no
\* table, the states of the DFA appended) and the starting state returned.
ToDfa(h, self) ==
  LET nodes1 == IF h.nodes[self].hasCompiled THEN h.nodes ELSE Compile(h, self)
      t_nfa == nodes1[self].compiled
  IN DfaBuild(nodes1, self, t_nfa, DfaTable(t_nfa, {{self}}, {}))

\* ------------------------------------------------------------------- state

VARIABLES
  nodes,             \* the nfa instances: id -> dictionary items and attributes
  lists,             \* the list objects held as dictionary values
  nfa_,              \* the instance under test (the starting state)
  dfa_,              \* the instance nfa_.to_dfa() returned, 0 before the call
  done,              \* the steps of the test taken so far
  sms_nfa_,          \* the matches of nfa_ before it is compiled
  sms_nfa_compiled,  \* the matches of nfa_ once compiled
  sms_dfa_           \* the matches of dfa_

VARIABLES
  calls,             \* the operations applied to the heap so far (Spec)
  mods,              \* state % label for every state and label, once computed
  run                \* the call in progress, frame by frame (SpecRun)

vars == <<nodes, lists, nfa_, dfa_, done, sms_nfa_, sms_nfa_compiled, sms_dfa_, calls, mods,
          run>>

Heap == [nodes |-> nodes, lists |-> lists]

\* A call of proc on the start state that has not begun: its stack of
\* frames, the arguments string and full of a match, the dictionaries of
\* compile (c), the variables of the loops of to_dfa (states, t_dfa) and of
\* the compiled back-end (ids_, length, lengths), and the value returned.
RunOf(proc, string, full) ==
  [proc |-> proc, pc |-> "start", ticks |-> 0, stack |-> <<>>,
   string |-> string, full |-> full,
   c |-> [acc |-> {}, tr |-> {}, states |-> <<>>],
   states |-> {}, t_dfa |-> {},
   ids_ |-> {}, length |-> 0, lengths |-> {},
   result |-> None]

\* No call in progress.
NoRun == [RunOf("none", <<>>, FALSE) EXCEPT !.pc = "done"]

\* ------------------------------------------------------------ drawn graphs

GraphIds == 1..GraphNodes

RECURSIVE UpTo(_, _)
\* The subsets of S with at most k elements.
UpTo(S, k) ==
  IF k = 0 THEN {{}}
  ELSE LET P == UpTo(S, k - 1) IN P \cup {p \cup {e} : p \in P, e \in S}

\* The transitions <<source, label, target>> of a drawn graph.
EdgeSets == UpTo(GraphIds \X Labels \X GraphIds, MaxEdges)

\* The _accept attributes of a drawn graph.
OverrideMaps ==
  {f \in [GraphIds -> {"unset", "accept", "reject"}] :
     Cardinality({n \in GraphIds : f[n] # "unset"}) <= MaxOverrides}

RECURSIVE ReachOver(_, _)
\* The ids reachable from the set R along the transitions E.
ReachOver(E, R) ==
  LET R1 == R \cup {e[3] : e \in {e \in E : e[1] \in R}}
  IN IF R1 = R THEN R ELSE ReachOver(E, R1)

\* Every transition and every attribute drawn lies on a state reachable from
\* 1, and the reachable states are numbered from 1 without a gap.
Trimmed(E, f) ==
  LET R == ReachOver(E, {1})
  IN /\ \A e \in E : e[1] \in R
     /\ \A n \in GraphIds : f[n] # "unset" => n \in R
     /\ R = 1..Cardinality(R)

LabelOrder == <<"a", "b", Epsilon>>

TargetsOf(E, n, label) == {e[3] : e \in {e \in E : e[1] = n /\ e[2] = label}}

\* How a drawn entry of state n with the targets T is held: state 1 holds a
\* single target as a state and several as a list, a state with an even id
\* holds tuples and the others hold lists, so that a state, a one-element
\* container, a list and a tuple all occur as values.
DrawnKind(n, T) ==
  IF n = 1 THEN (IF Cardinality(T) = 1 THEN "nfa" ELSE "list")
  ELSE IF n % 2 = 0 THEN "tuple" ELSE "list"

\* The entries <<n, label>> of a drawn graph held as list objects, in the
\* order of their ids.
DrawnListKeys(E) ==
  SetToSeq({p \in GraphIds \X Labels :
              /\ TargetsOf(E, p[1], p[2]) # {}
              /\ DrawnKind(p[1], TargetsOf(E, p[1], p[2])) = "list"})

DrawnLists(E) ==
  LET keys == DrawnListKeys(E)
  IN [k \in 1..Len(keys) |-> SetToSeq(TargetsOf(E, keys[k][1], keys[k][2]))]

\* The dictionary value of a drawn entry.
DrawnValue(E, n, label) ==
  LET T == TargetsOf(E, n, label)
      keys == DrawnListKeys(E)
  IN IF DrawnKind(n, T) = "tuple" THEN TupleValue(SetToSeq(T))
     ELSE IF DrawnKind(n, T) = "nfa" THEN NfaValue(CHOOSE t \in T : TRUE)
     ELSE ListValue(CHOOSE k \in 1..Len(keys) : keys[k] = <<n, label>>)

RECURSIVE DrawnItems(_, _, _)
\* The items of state n of a drawn graph, inserted in the order of LabelOrder.
DrawnItems(E, n, i) ==
  IF i > Len(LabelOrder) THEN <<>>
  ELSE (IF TargetsOf(E, n, LabelOrder[i]) = {} THEN <<>>
        ELSE <<[key |-> LabelOrder[i], val |-> DrawnValue(E, n, LabelOrder[i])]>>)
       \o DrawnItems(E, n, i + 1)

DrawnNodes(E, f) ==
  [n \in GraphIds |->
     [EmptyNode EXCEPT !.items = DrawnItems(E, n, 1), !.accept = f[n]]]

\* ------------------------------------------------------------------ inputs

\* The strings of strs(alphabet, k): every string of at most MaxInput symbols.
Inputs == UNION {[1..k -> Symbols] : k \in 0..MaxInput}

\* A string with the value of full.
Cases == Inputs \X BOOLEAN

\* set((s, m) for s in ss for m in [n(s, full)]), for both values of full.
Matches(h, n) == [c \in Cases |-> Call(h, n, c[1], c[2], 0)]

NoMatches == [c \in Cases |-> None]

\* --------------------------------------------------- the functions on a graph

InitFn ==
  \E E \in EdgeSets, f \in OverrideMaps :
    /\ Trimmed(E, f)
    /\ nodes = DrawnNodes(E, f)
    /\ lists = DrawnLists(E)
    /\ nfa_ = 1
    /\ dfa_ = 0
    /\ done = {}
    /\ sms_nfa_ = NoMatches
    /\ sms_nfa_compiled = NoMatches
    /\ sms_dfa_ = NoMatches
    /\ calls = <<>>
    /\ mods = <<>>
    /\ run = NoRun

\* [[state % label for label in alphabet + [epsilon]] for state in the graph]
ModAll ==
  /\ done = {}
  /\ mods' = [p \in (DOMAIN nodes) \X Labels |-> Mod(Heap, p[1], p[2])]
  /\ done' = {"mod"}
  /\ UNCHANGED <<nodes, lists, nfa_, dfa_, sms_nfa_, sms_nfa_compiled, sms_dfa_, calls, run>>

\* sms_nfa_ = set((s, m) for s in ss for m in [nfa_(s, full)])
Sample ==
  /\ done = {}
  /\ ~nodes[nfa_].hasCompiled
  /\ sms_nfa_' = Matches(Heap, nfa_)
  /\ done' = done \cup {"sample"}
  /\ UNCHANGED <<nodes, lists, nfa_, dfa_, sms_nfa_compiled, sms_dfa_, calls, mods, run>>

\* nfa_ = nfa_.compile()
CompileStart ==
  /\ "sample" \in done
  /\ "compile" \notin done
  /\ "to_dfa" \notin done
  /\ nodes' = Compile(Heap, nfa_)
  /\ done' = done \cup {"compile"}
  /\ UNCHANGED <<lists, nfa_, dfa_, sms_nfa_, sms_nfa_compiled, sms_dfa_, calls, mods, run>>

\* sms_nfa_compiled = set((s, m) for s in ss for m in [nfa_(s, full)])
SampleCompiled ==
  /\ "compile" \in done
  /\ "sample_compiled" \notin done
  /\ sms_nfa_compiled' = Matches(Heap, nfa_)
  /\ done' = done \cup {"sample_compiled"}
  /\ UNCHANGED <<nodes, lists, nfa_, dfa_, sms_nfa_, sms_dfa_, calls, mods, run>>

\* dfa_ = nfa_.to_dfa()
ToDfaStart ==
  /\ "sample" \in done
  /\ "to_dfa" \notin done
  /\ "compile" \in done => "sample_compiled" \in done
  /\ LET r == ToDfa(Heap, nfa_)
     IN nodes' = r.nodes /\ dfa_' = r.start
  /\ done' = done \cup {"to_dfa"}
  /\ UNCHANGED <<lists, nfa_, sms_nfa_, sms_nfa_compiled, sms_dfa_, calls, mods, run>>

\* sms_dfa_ = set((s, m) for s in ss for m in [dfa_(s, full)])
SampleDfa ==
  /\ "to_dfa" \in done
  /\ "sample_dfa" \notin done
  /\ sms_dfa_' = Matches(Heap, dfa_)
  /\ done' = done \cup {"sample_dfa"}
  /\ UNCHANGED <<nodes, lists, nfa_, dfa_, sms_nfa_, sms_nfa_compiled, calls, mods, run>>

NextFn == ModAll \/ Sample \/ CompileStart \/ SampleCompiled \/ ToDfaStart \/ SampleDfa

SpecFn == InitFn /\ [][NextFn]_vars

\* ------------------------------------------------- operations on the heap

\* A value as written by a caller: a state, a list or a tuple written out
\* (ref 0: the list is no object of the heap yet; the item 0 stands for an
\* object that is no nfa instance, such as 123), or such an object itself.
ListLiteral(ns) == [kind |-> "list", ref |-> 0, elts |-> ns]
Other == [kind |-> "other", ref |-> 0, elts |-> <<>>]

\* The items of a list or tuple value.
Items(h, v) == IF v.kind = "list" /\ v.ref # 0 THEN h.lists[v.ref] ELSE v.elts

\* Validation that accepts a list or tuple of any length.
ValidValueAnyLength(h, v) ==
  \/ v.kind = "nfa"
  \/ /\ v.kind \in {"tuple", "list"}
     /\ \A i \in 1..Len(Items(h, v)) : Items(h, v)[i] # 0

\* nfa.__new__: whether a value of the argument is admitted.
ValidValue(h, v) ==
  \/ v.kind = "nfa"
  \/ /\ v.kind \in {"tuple", "list"}
     /\ Len(Items(h, v)) > 0
     /\ \A i \in 1..Len(Items(h, v)) : Items(h, v)[i] # 0

\* The list objects once the value v is held by a dictionary: a list written
\* out becomes an object of the heap.
StoredLists(h, v) ==
  IF v.kind = "list" /\ v.ref = 0 THEN Append(h.lists, v.elts) ELSE h.lists

\* The value v as a dictionary holds it.
StoredValue(h, v) ==
  IF v.kind = "list" /\ v.ref = 0 THEN ListValue(Len(h.lists) + 1) ELSE v

\* dict.__setitem__: the items after `self[key] = value`.
SetItemItems(items, key, value) ==
  IF KeyIndex(items, key) = 0
  THEN Append(items, [key |-> key, val |-> value])
  ELSE [items EXCEPT ![KeyIndex(items, key)].val = value]

\* dict.__delitem__: the items after `del self[key]`.
DelItemItems(items, key) ==
  LET i == KeyIndex(items, key)
  IN SubSeq(items, 1, i - 1) \o SubSeq(items, i + 1, Len(items))

\* A copy whose transitions to the instance lead to the copy instead.
ShallowCopyRetargeted(h, self, accept) ==
  h.nodes \o
    <<[EmptyNode EXCEPT
         !.items = [i \in 1..Len(h.nodes[self].items) |->
                      IF h.nodes[self].items[i].val = NfaValue(self)
                      THEN [h.nodes[self].items[i] EXCEPT !.val = NfaValue(Len(h.nodes) + 1)]
                      ELSE h.nodes[self].items[i]],
         !.accept = accept]>>

\* A shallow copy that marks the instance itself as well as the copy.
ShallowCopyInPlace(h, self, accept) ==
  [h.nodes EXCEPT ![self].accept = accept]
    \o <<[EmptyNode EXCEPT !.items = h.nodes[self].items, !.accept = accept]>>

\* nfa_ = nfa(self.items()); setattr(nfa_, "_accept", ...): the nodes after
\* __pos__, __neg__ or __invert__, the copy being the last of them.
ShallowCopy(h, self, accept) ==
  h.nodes \o <<[EmptyNode EXCEPT !.items = h.nodes[self].items, !.accept = accept]>>

\* An insertion that drops the table saved on the state.
SetItemInvalidating(h, self, key, value) ==
  [h.nodes EXCEPT ![self] =
     [@ EXCEPT !.items = SetItemItems(@, key, StoredValue(h, value)),
               !.hasCompiled = FALSE]]

\* self[key] = value: the nodes after the insertion or replacement.
SetItemNodes(h, self, key, value) ==
  [h.nodes EXCEPT ![self].items = SetItemItems(@, key, StoredValue(h, value))]

\* _memo[id(self)] when id(self) in _memo, 0 otherwise; memo is the sequence
\* of the pairs <<id of a state, id of its copy>>.
MemoOf(memo, self) ==
  IF \E i \in 1..Len(memo) : memo[i][1] = self
  THEN memo[CHOOSE i \in 1..Len(memo) : memo[i][1] = self][2]
  ELSE 0

\* A copy of a state without its _accept attribute.
CopyNodeDefault(h, self) == EmptyNode

\* A copy of a state that keeps the attributes _compiled and _states.
CopyNodeWithTable(h, self) == [h.nodes[self] EXCEPT !.items = <<>>]

\* nfa_ = nfa(); setattr(nfa_, '_accept', self._accept) when self has it.
CopyNode(h, self) == [EmptyNode EXCEPT !.accept = h.nodes[self].accept]

RECURSIVE CopyRec(_, _, _)
RECURSIVE CopyItems(_, _, _, _, _)
RECURSIVE CopyElems(_, _, _, _)
\* nfa.copy(_memo): c holds the nodes of the heap (nodes), _memo (memo), and
\* after the call the id of the copy returned (ret).
CopyRec(h, self, c) ==
  IF MemoOf(c.memo, self) # 0 THEN [c EXCEPT !.ret = MemoOf(c.memo, self)]
  ELSE LET k == Len(c.nodes) + 1
           c1 == [c EXCEPT !.nodes = Append(@, CopyNode(h, self)),
                           !.memo = Append(@, <<self, k>>)]
       IN [CopyItems(h, self, 1, k, c1) EXCEPT !.ret = k]

\* for symbol in self: nfa_[symbol] = ..., from the i-th item on; k is nfa_.
CopyItems(h, self, i, k, c) ==
  IF i > Len(h.nodes[self].items) THEN c
  ELSE LET item == h.nodes[self].items[i]
       IN IF item.val.kind = "nfa"
          THEN LET r == CopyRec(h, item.val.ref, c)
               IN CopyItems(h, self, i + 1, k,
                    [r EXCEPT !.nodes[k].items =
                       Append(@, [key |-> item.key, val |-> NfaValue(r.ret)])])
          ELSE LET r == CopyElems(h, Elems(h, item.val), 1, [c EXCEPT !.tup = <<>>])
               IN CopyItems(h, self, i + 1, k,
                    [r EXCEPT !.nodes[k].items =
                       Append(@, [key |-> item.key, val |-> TupleValue(r.tup)])])

\* tuple(nfa__.copy(_memo) for nfa__ in self[symbol]), from the j-th element.
CopyElems(h, elts, j, c) ==
  IF j > Len(elts) THEN c
  ELSE LET r == CopyRec(h, elts[j], c)
       IN CopyElems(h, elts, j + 1, [r EXCEPT !.tup = Append(c.tup, r.ret)])

\* self.copy(): the nodes of the heap with the copies added.
Copy(h, self) ==
  CopyRec(h, self, [nodes |-> h.nodes, memo |-> <<>>, ret |-> 0, tup |-> <<>>])

Ids == 1..Len(nodes)

\* The labels of the insertions, and the values inserted: a state, or an
\* empty list, which ListAppend fills.
MutationLabels == {"a", Epsilon}

InsertedValues == {NfaValue(m) : m \in Ids} \cup {ListLiteral(<<>>)}

\* The values of the argument of nfa(...): those inserted, a list or a tuple
\* of one state, and the values the constructor rejects.
ArgumentValues ==
  InsertedValues \cup {ListLiteral(<<m>>) : m \in Ids} \cup {TupleValue(<<m>>) : m \in Ids}
    \cup {ListLiteral(<<0>>), TupleValue(<<>>), Other}

Called(op, self) == calls' = Append(calls, [op |-> op, self |-> self])

CanCall == Len(calls) < MaxSteps

NfaFrame == UNCHANGED <<nfa_, dfa_, done, sms_nfa_, sms_nfa_compiled, sms_dfa_, mods, run>>

\* accept = nfa(); zeros = nfa({0: [accept]}); zeros[0].append(zeros)
Zeros ==
  [nodes |-> <<EmptyNode,
               [EmptyNode EXCEPT !.items = <<[key |-> "a", val |-> ListValue(1)]>>]>>,
   lists |-> << <<1, 2>> >>]

\* accept = nfa(); zeros = nfa({epsilon: [accept]}); zeros[0] = [zeros]
ZerosEpsilon ==
  [nodes |-> <<EmptyNode,
               [EmptyNode EXCEPT !.items = <<[key |-> Epsilon, val |-> ListValue(1)],
                                             [key |-> "a", val |-> ListValue(2)]>>]>>,
   lists |-> << <<1>>, <<2>> >>]

\* final = nfa(); middle = +nfa({456: final}); first = nfa({123: middle})
First ==
  [nodes |-> <<EmptyNode,
               [EmptyNode EXCEPT !.items = <<[key |-> "b", val |-> NfaValue(1)]>>,
                                 !.accept = "accept"],
               [EmptyNode EXCEPT !.items = <<[key |-> "a", val |-> NfaValue(2)]>>]>>,
   lists |-> <<>>]

\* zeros = zeros.compile()
ZerosCompiled == [Zeros EXCEPT !.nodes = Compile(Zeros, 2)]

\* The automata of the examples of compile() and __call__, the start state
\* being the last state constructed.
Init ==
  /\ \E h \in {Zeros, ZerosEpsilon, First, ZerosCompiled} :
       /\ nodes = h.nodes
       /\ lists = h.lists
       /\ nfa_ = Len(h.nodes)
  /\ dfa_ = 0
  /\ done = {}
  /\ sms_nfa_ = NoMatches
  /\ sms_nfa_compiled = NoMatches
  /\ sms_dfa_ = NoMatches
  /\ calls = <<>>
  /\ mods = <<>>
  /\ run = NoRun

\* nfa(): a new state with no transition.
NewEmpty ==
  /\ CanCall
  /\ Len(nodes) < MaxNodes
  /\ nodes' = Append(nodes, EmptyNode)
  /\ Called("new", Len(nodes) + 1)
  /\ UNCHANGED lists
  /\ NfaFrame

\* nfa({key: value}): a new state when the value is admitted, and a
\* TypeError that leaves the heap as it was otherwise.
New(key, value) ==
  /\ CanCall
  /\ Len(nodes) < MaxNodes
  /\ IF ValidValue(Heap, value)
     THEN /\ nodes' = Append(nodes, [EmptyNode EXCEPT
                        !.items = <<[key |-> key, val |-> StoredValue(Heap, value)]>>])
          /\ lists' = StoredLists(Heap, value)
          /\ Called("new", Len(nodes) + 1)
     ELSE /\ UNCHANGED <<nodes, lists>>
          /\ Called("TypeError", 0)
  /\ NfaFrame

\* self[key] = value
SetItem(self, key, value) ==
  /\ CanCall
  /\ nodes' = SetItemNodes(Heap, self, key, value)
  /\ lists' = StoredLists(Heap, value)
  /\ Called("setitem", self)
  /\ NfaFrame

\* del self[key]
DelItem(self, key) ==
  /\ CanCall
  /\ KeyIndex(nodes[self].items, key) # 0
  /\ nodes' = [nodes EXCEPT ![self].items = DelItemItems(@, key)]
  /\ Called("delitem", self)
  /\ UNCHANGED lists
  /\ NfaFrame

\* self[key].append(state), for a value that is a list
ListAppend(self, key, state) ==
  /\ CanCall
  /\ KeyIndex(nodes[self].items, key) # 0
  /\ LET v == nodes[self].items[KeyIndex(nodes[self].items, key)].val
     IN /\ v.kind = "list"
        /\ Len(lists[v.ref]) < MaxList
        /\ lists' = [lists EXCEPT ![v.ref] = Append(@, state)]
  /\ Called("append", self)
  /\ UNCHANGED nodes
  /\ NfaFrame

\* nfa(self.items()) is admitted by the constructor.
CanCopy(self) ==
  \A i \in 1..Len(nodes[self].items) : ValidValue(Heap, nodes[self].items[i].val)

\* +self: the copy, or the TypeError of the constructor
Pos(self) ==
  /\ CanCall
  /\ Len(nodes) < MaxNodes
  /\ IF CanCopy(self)
     THEN /\ nodes' = ShallowCopy(Heap, self, "accept")
          /\ Called("pos", self)
     ELSE /\ UNCHANGED nodes
          /\ Called("TypeError", 0)
  /\ UNCHANGED lists
  /\ NfaFrame

\* -self
Neg(self) ==
  /\ CanCall
  /\ Len(nodes) < MaxNodes
  /\ IF CanCopy(self)
     THEN /\ nodes' = ShallowCopy(Heap, self, "reject")
          /\ Called("neg", self)
     ELSE /\ UNCHANGED nodes
          /\ Called("TypeError", 0)
  /\ UNCHANGED lists
  /\ NfaFrame

\* ~self
Invert(self) ==
  /\ CanCall
  /\ Len(nodes) < MaxNodes
  /\ IF CanCopy(self)
     THEN /\ nodes' = ShallowCopy(Heap, self, IF Accepting(Heap, self) THEN "reject" ELSE "accept")
          /\ Called("invert", self)
     ELSE /\ UNCHANGED nodes
          /\ Called("TypeError", 0)
  /\ UNCHANGED lists
  /\ NfaFrame

\* self.compile()
DoCompile(self) ==
  /\ CanCall
  /\ nodes' = Compile(Heap, self)
  /\ Called("compile", self)
  /\ UNCHANGED lists
  /\ NfaFrame

\* self.states()
DoStates(self) ==
  /\ CanCall
  /\ nodes' = States(Heap, self)
  /\ Called("states", self)
  /\ UNCHANGED lists
  /\ NfaFrame

\* self.symbols()
DoSymbols(self) ==
  /\ CanCall
  /\ nodes' = SymbolsNodes(Heap, self)
  /\ Called("symbols", self)
  /\ UNCHANGED lists
  /\ NfaFrame

\* dfa_ = self.to_dfa()
DoToDfa(self) ==
  /\ CanCall
  /\ Len(nodes) <= MaxNodes
  /\ LET r == ToDfa(Heap, self)
     IN nodes' = r.nodes /\ dfa_' = r.start
  /\ Called("to_dfa", self)
  /\ UNCHANGED <<lists, nfa_, done, sms_nfa_, sms_nfa_compiled, sms_dfa_, mods, run>>

\* self.copy()
DoCopy(self) ==
  /\ CanCall
  /\ Len(nodes) <= MaxNodes
  /\ nodes' = Copy(Heap, self).nodes
  /\ Called("copy", self)
  /\ UNCHANGED lists
  /\ NfaFrame

Next ==
  \/ NewEmpty
  \/ \E key \in MutationLabels, value \in ArgumentValues : New(key, value)
  \/ \E self \in Ids, key \in MutationLabels, value \in InsertedValues : SetItem(self, key, value)
  \/ \E self \in Ids, key \in MutationLabels : DelItem(self, key)
  \/ \E self \in Ids, key \in MutationLabels, state \in Ids : ListAppend(self, key, state)
  \/ \E self \in Ids : Pos(self)
  \/ \E self \in Ids : Neg(self)
  \/ \E self \in Ids : Invert(self)
  \/ \E self \in Ids : DoCompile(self)
  \/ \E self \in Ids : DoCopy(self)
  \/ \E self \in Ids : DoStates(self)
  \/ \E self \in Ids : DoSymbols(self)
  \/ \E self \in Ids : DoToDfa(self)

Spec == Init /\ [][Next]_vars

\* ---------------------------------------------------------------------
\* compile, to_dfa and __call__ frame by frame: one step per recursive
\* call, per return and per pass of a loop.

RECURSIVE Power(_, _)
Power(b, k) == IF k = 0 THEN 1 ELSE b * Power(b, k - 1)

\* The number of nodes of a tree of depth d in which every node has b
\* children.
RECURSIVE TreeSize(_, _)
TreeSize(b, d) == IF d = 0 THEN 1 ELSE Power(b, d) + TreeSize(b, d - 1)

\* The steps a call may take: a call and a return for every frame of
\* compile (at most MaxEdges recursive calls per frame, nested at most
\* GraphNodes deep) and of the lazy back-end (nested at most MaxInput deep),
\* a pass of to_dfa for every entry of the deterministic table, a pass of the
\* compiled back-end for every position of the input.
TickLimit ==
  2 * TreeSize(MaxEdges, GraphNodes) + 2 * TreeSize(MaxEdges, MaxInput)
    + Cardinality(Symbols) * Power(2, GraphNodes) + MaxInput + 4

Top == run.stack[Len(run.stack)]

Pop == SubSeq(run.stack, 1, Len(run.stack) - 1)

Running(pc) == run.pc = pc /\ run.ticks < TickLimit

Tick(r) == [r EXCEPT !.ticks = @ + 1]

\* The cut-off mutated: no state counts as visited.
NeverVisited(ids, self) == FALSE

\* if id(self) in ids: return self
Visited(ids, self) == InSeq(ids, self)

\* The frame of compile(_compiled, _states, _ids = ids) on self up to its
\* recursive calls, and the dictionaries c after its first loop: edges are
\* the recursive calls the frame has to make, i the next of them.
CompileEnter(h, self, ids, c) ==
  IF Visited(ids, self)
  THEN [frame |-> [self |-> self, ids |-> ids, edges |-> <<>>, i |-> 1], c |-> c]
  ELSE LET closure == Closure(h, self)
           edges == ClosureEdges(h, closure, 1, <<>>)
       IN [frame |-> [self |-> self, ids |-> ids, edges |-> edges, i |-> 1],
           c |-> CompileVisit(h, self, closure, edges, c)]

\* start.compile() or start.to_dfa() is called.
CompileCall ==
  /\ Running("start")
  /\ run.proc \in {"compile", "to_dfa"}
  /\ LET e == CompileEnter(Heap, nfa_, <<>>,
                           [acc |-> {}, tr |-> {}, states |-> <<nfa_>>])
     IN run' = Tick([run EXCEPT !.pc = "compile", !.stack = <<e.frame>>, !.c = e.c])
  /\ UNCHANGED <<nodes, lists, nfa_, dfa_, done, sms_nfa_, sms_nfa_compiled, sms_dfa_,
                 calls, mods>>

\* nfa_.compile(_compiled, _states, _ids = ids + [id(self)]) for the next
\* transition out of the closure of the frame on top.
CompileDescend ==
  /\ Running("compile")
  /\ Top.i <= Len(Top.edges)
  /\ LET e == CompileEnter(Heap, Top.edges[Top.i][2], Append(Top.ids, Top.self), run.c)
     IN run' = Tick([run EXCEPT
                       !.stack = Append(Append(Pop, [Top EXCEPT !.i = @ + 1]), e.frame),
                       !.c = e.c])
  /\ UNCHANGED <<nodes, lists, nfa_, dfa_, done, sms_nfa_, sms_nfa_compiled, sms_dfa_,
                 calls, mods>>

\* The frame on top returns; the root frame saves the table and the states
\* and, within to_dfa, the loop of to_dfa begins.
CompileReturn ==
  /\ Running("compile")
  /\ Top.i > Len(Top.edges)
  /\ IF Len(run.stack) > 1
     THEN /\ run' = Tick([run EXCEPT !.stack = Pop])
          /\ UNCHANGED nodes
     ELSE /\ nodes' = [nodes EXCEPT ![nfa_] =
                         [@ EXCEPT !.hasCompiled = TRUE,
                                   !.compiled = [acc |-> run.c.acc, tr |-> run.c.tr],
                                   !.hasStates = TRUE,
                                   !.states = run.c.states]]
          /\ run' = Tick([run EXCEPT
                            !.stack = <<>>,
                            !.pc = IF run.proc = "compile" THEN "done" ELSE "to_dfa",
                            !.states = {{nfa_}}])
  /\ UNCHANGED <<lists, nfa_, dfa_, done, sms_nfa_, sms_nfa_compiled, sms_dfa_, calls, mods>>

\* One pass of the loop `while updated` of to_dfa; after the pass that
\* updates nothing, the states of the DFA are built.
ToDfaPass ==
  /\ Running("to_dfa")
  /\ LET t_nfa == nodes[nfa_].compiled
         new == DfaPass(t_nfa, run.states, run.t_dfa)
         d == DfaBuild(nodes, nfa_, t_nfa, run.t_dfa)
     IN IF new # {}
        THEN /\ run' = Tick([run EXCEPT !.states = {e[3] : e \in new},
                                        !.t_dfa = @ \cup new])
             /\ UNCHANGED <<nodes, dfa_>>
        ELSE /\ run' = Tick([run EXCEPT !.pc = "done", !.states = {}])
             /\ nodes' = d.nodes
             /\ dfa_' = d.start
  /\ UNCHANGED <<lists, nfa_, done, sms_nfa_, sms_nfa_compiled, sms_dfa_, calls, mods>>

\* start(string, full) is called on a compiled start state.
LoopCall ==
  /\ Running("start")
  /\ run.proc = "call"
  /\ nodes[nfa_].hasCompiled
  /\ run' = Tick([run EXCEPT !.pc = "loop", !.ids_ = {nfa_}])
  /\ UNCHANGED <<nodes, lists, nfa_, dfa_, done, sms_nfa_, sms_nfa_compiled, sms_dfa_,
                 calls, mods>>

\* One pass of the loop `while True` of the compiled back-end.
LoopStep ==
  /\ Running("loop")
  /\ LET s == LoopPass(nodes[nfa_].compiled, run.ids_, run.string, run.full,
                       run.length, run.lengths)
     IN run' = Tick([run EXCEPT !.pc = IF s.returns THEN "done" ELSE "loop",
                                !.ids_ = s.ids, !.length = s.length,
                                !.lengths = s.lengths, !.result = s.value])
  /\ UNCHANGED <<nodes, lists, nfa_, dfa_, done, sms_nfa_, sms_nfa_compiled, sms_dfa_,
                 calls, mods>>

\* The position of the recursive call mutated: the input is not advanced.
SamePosition(length) == length

\* nfa__(string, full=full, _length=(_length + 1))
NextPosition(length) == length + 1

RECURSIVE Branches(_, _, _, _, _)
\* The states on which the lazy back-end calls itself, in order: the
\* targets nfa_ @ symbol of every nfa_ of the closure.
Branches(h, closure, symbol, i, out) ==
  IF i > Len(closure) THEN out
  ELSE Branches(h, closure, symbol, i + 1, out \o Matmul(h, closure[i], symbol))

\* The frame of self(string, full, _length = length) in the lazy back-end
\* up to its recursive calls: branches are the calls the frame has to make,
\* i the next of them, lengths the lengths collected so far.  A frame on a
\* compiled state is answered by the compiled back-end.
CallEnter(h, self, string, full, length) ==
  LET closure == Closure(h, self)
      more == length < Len(string)
      open == more /\ ~h.nodes[self].hasCompiled /\ ~IsEpsilon(string[length + 1])
  IN [self |-> self, length |-> length, closure |-> closure,
      branches |-> IF open THEN Branches(h, closure, string[length + 1], 1, <<>>)
                   ELSE <<>>,
      i |-> 1,
      lengths |-> IF open /\ ~full /\
                     (Accepting(h, self) \/ \E k \in 1..Len(closure) : Accepting(h, closure[k]))
                  THEN {length} ELSE {}]

\* The value a frame of the lazy back-end returns after its recursive calls.
CallValue(h, f, string, full) ==
  IF h.nodes[f.self].hasCompiled
  THEN CallCompiled(h.nodes[f.self].compiled, {f.self}, string, full, f.length, {})
  ELSE IF f.length < Len(string)
       THEN IF IsEpsilon(string[f.length + 1]) THEN ValueError
            ELSE MaxDefault(f.lengths, IF Accepting(h, f.self) /\ ~full THEN 0 ELSE None)
       ELSE IF \E k \in 1..Len(f.closure) : Accepting(h, f.closure[k])
            THEN f.length ELSE None

\* start(string, full) is called on a start state that is not compiled.
MatchCall ==
  /\ Running("start")
  /\ run.proc = "call"
  /\ ~nodes[nfa_].hasCompiled
  /\ run' = Tick([run EXCEPT !.pc = "match",
                             !.stack = <<CallEnter(Heap, nfa_, run.string, run.full, 0)>>])
  /\ UNCHANGED <<nodes, lists, nfa_, dfa_, done, sms_nfa_, sms_nfa_compiled, sms_dfa_,
                 calls, mods>>

\* The frame on top calls the next branch at the next position.
MatchDescend ==
  /\ Running("match")
  /\ Top.i <= Len(Top.branches)
  /\ run' = Tick([run EXCEPT !.stack =
                    Append(Append(Pop, [Top EXCEPT !.i = @ + 1]),
                           CallEnter(Heap, Top.branches[Top.i], run.string, run.full,
                                     NextPosition(Top.length)))])
  /\ UNCHANGED <<nodes, lists, nfa_, dfa_, done, sms_nfa_, sms_nfa_compiled, sms_dfa_,
                 calls, mods>>

\* The frame on top returns its value to the frame below, which collects it
\* unless it is None; an exception ends the call.
MatchReturn ==
  /\ Running("match")
  /\ Top.i > Len(Top.branches)
  /\ LET value == CallValue(Heap, Top, run.string, run.full)
         below == Pop[Len(Pop)]
     IN IF Len(run.stack) = 1 \/ value = ValueError
        THEN run' = Tick([run EXCEPT !.pc = "done", !.stack = <<>>, !.result = value])
        ELSE run' = Tick([run EXCEPT !.stack =
                            Append(SubSeq(Pop, 1, Len(Pop) - 1),
                                   [below EXCEPT !.lengths =
                                      IF value = None THEN @ ELSE @ \cup {value}])])
  /\ UNCHANGED <<nodes, lists, nfa_, dfa_, done, sms_nfa_, sms_nfa_compiled, sms_dfa_,
                 calls, mods>>

\* The calls that are run: compile and to_dfa, and a match of every input
\* in both modes.
Runs ==
  {RunOf("compile", <<>>, FALSE), RunOf("to_dfa", <<>>, FALSE)}
    \cup {RunOf("call", c[1], c[2]) : c \in Cases}

\* Every drawn graph without overrides, as built or compiled, with a call
\* about to begin.
InitRun ==
  \E E \in EdgeSets, r \in Runs, compiled \in BOOLEAN :
    LET f == [n \in GraphIds |-> "unset"] IN
    /\ Trimmed(E, f)
    /\ compiled => r.proc = "call"
    /\ nodes = IF compiled
               THEN Compile([nodes |-> DrawnNodes(E, f), lists |-> DrawnLists(E)], 1)
               ELSE DrawnNodes(E, f)
    /\ lists = DrawnLists(E)
    /\ nfa_ = 1
    /\ dfa_ = 0
    /\ done = {}
    /\ sms_nfa_ = NoMatches
    /\ sms_nfa_compiled = NoMatches
    /\ sms_dfa_ = NoMatches
    /\ calls = <<>>
    /\ mods = <<>>
    /\ run = r

NextRun ==
  \/ CompileCall
  \/ CompileDescend
  \/ CompileReturn
  \/ ToDfaPass
  \/ LoopCall
  \/ LoopStep
  \/ MatchCall
  \/ MatchDescend
  \/ MatchReturn

SpecRun == InitRun /\ [][NextRun]_vars

\* Some step of the call is enabled.  The effect of every step is an
\* assignment to the variables, so a step is enabled exactly when its guard
\* holds; these are the guards of the disjuncts of NextRun.
CanStep ==
  \/ Running("start") /\ run.proc \in {"compile", "to_dfa", "call"}
  \/ Running("compile") /\ run.stack # <<>>
  \/ Running("to_dfa")
  \/ Running("loop")
  \/ Running("match") /\ run.stack # <<>>

\* ------------------------------------------------- the language of a graph

\* The targets of the transitions of state n under any label.
Successors(h, n) ==
  UNION {Range(Elems(h, h.nodes[n].items[i].val)) : i \in 1..Len(h.nodes[n].items)}

RECURSIVE ReachAll(_, _)
\* The states reachable from the states R through transitions of any label.
ReachAll(h, R) ==
  LET R1 == R \cup UNION {Successors(h, n) : n \in R}
  IN IF R1 = R THEN R ELSE ReachAll(h, R1)

RECURSIVE EpsReach(_, _)
\* The states reachable from the states S through epsilon transitions alone.
EpsReach(h, S) ==
  LET S1 == S \cup UNION {Range(Matmul(h, n, Epsilon)) : n \in S}
  IN IF S1 = S THEN S ELSE EpsReach(h, S1)

RECURSIVE EndsOf(_, _, _, _)
\* The states at which a path from a state of S can end whose labels other
\* than epsilon spell string[k + 1 .. Len(string)].
EndsOf(h, S, string, k) ==
  IF k = Len(string) THEN EpsReach(h, S)
  ELSE EndsOf(h, UNION {Range(Matmul(h, n, string[k + 1])) : n \in EpsReach(h, S)},
              string, k + 1)

\* There is a path from state n that spells string and ends at an accepting state.
Spells(h, n, string) == \E e \in EndsOf(h, {n}, string, 0) : Accepting(h, e)

Prefix(string, k) == SubSeq(string, 1, k)

\* The labels other than epsilon of the transitions reachable from state n.
LabelsFrom(h, n) ==
  UNION {Range(Keys(h.nodes[m].items)) : m \in ReachAll(h, {n})} \ {Epsilon}

\* ------------------------------------------------------------------ claims

\* The state of the test right after nfa_ was matched uncompiled, and right
\* after it was matched compiled.
Sampled == done = {"sample"}
SampledCompiled == done = {"sample", "compile", "sample_compiled"}

\* The graph under test has a transition of each kind and a state that
\* accepts by an _accept attribute: the matches below are not all rejections.
RichGraph ==
  /\ \E n \in ReachAll(Heap, {nfa_}) : Matmul(Heap, n, Epsilon) # <<>>
  /\ \E n \in ReachAll(Heap, {nfa_}) : \E a \in Symbols : Matmul(Heap, n, a) # <<>>
  /\ \E c \in Cases : sms_nfa_[c] > 0
  /\ \E c \in Cases : sms_nfa_[c] = None

\* C1: back-end agreement.  For every drawn graph, every string and both
\* values of full, the match of the graph before it is compiled (the lazy
\* back-end) equals its match once compiled (the table).
C1_BackendAgreement ==
  {"sample", "sample_compiled"} \subseteq done => sms_nfa_compiled = sms_nfa_

C1_Witness ==
  /\ {"sample", "sample_compiled"} \subseteq done
  /\ RichGraph
  /\ \E n \in ReachAll(Heap, {nfa_}) : n \in EpsReach(Heap, Range(Matmul(Heap, n, Epsilon)))

\* C2: DFA equivalence.  For every drawn graph, every string and both values
\* of full, the match of nfa_.to_dfa() equals the match of nfa_.
C2_DfaEquivalence ==
  {"sample", "sample_dfa"} \subseteq done => sms_dfa_ = sms_nfa_

C2_Witness ==
  /\ {"sample", "sample_dfa"} \subseteq done
  /\ RichGraph
  /\ Cardinality(ReachAll(Heap, {dfa_})) > 1

\* A match with full = True is the length of the string when a path from
\* nfa_ spells the string and ends at an accepting state, and None otherwise.
FullIsSpelling(sms) ==
  \A string \in Inputs :
    sms[<<string, TRUE>>] = IF Spells(Heap, nfa_, string) THEN Len(string) ELSE None

\* C3: full mode.  In both back-ends the match with full = True is
\* len(string) exactly when some path from the start spells the string and
\* ends at an accepting state, and is None otherwise.
C3_FullMode ==
  /\ Sampled => FullIsSpelling(sms_nfa_)
  /\ SampledCompiled => FullIsSpelling(sms_nfa_compiled)

C3_Witness ==
  /\ SampledCompiled
  /\ RichGraph
  /\ \E string \in Inputs : Len(string) = MaxInput /\ sms_nfa_[<<string, TRUE>>] = MaxInput
  /\ \E string \in Inputs : Len(string) = MaxInput /\ sms_nfa_[<<string, TRUE>>] = None
                            /\ sms_nfa_[<<string, FALSE>>] # None

\* The lengths of the prefixes of a string that match with full = True.
FullPrefixes(sms, string) ==
  {k \in 0..Len(string) : sms[<<Prefix(string, k), TRUE>>] # None}

\* A match with full = False is the greatest length of a prefix that matches
\* with full = True, None when there is none, and lies before the first
\* symbol of the string that labels no transition of the graph.
PrefixIsLongest(sms) ==
  \A string \in Inputs :
    /\ sms[<<string, FALSE>>] = MaxDefault(FullPrefixes(sms, string), None)
    /\ \A i \in 1..Len(string) :
         string[i] \notin LabelsFrom(Heap, nfa_) => sms[<<string, FALSE>>] < i

\* C4: prefix mode.  In both back-ends the match with full = False is the
\* largest k such that the first k symbols match with full = True (None when
\* no prefix matches), and never exceeds the position of the first symbol
\* that labels no transition of the graph.
C4_PrefixMode ==
  /\ Sampled => PrefixIsLongest(sms_nfa_)
  /\ SampledCompiled => PrefixIsLongest(sms_nfa_compiled)

C4_Witness ==
  /\ SampledCompiled
  /\ \E string \in Inputs :
       /\ Cardinality(FullPrefixes(sms_nfa_, string)) > 1
       /\ sms_nfa_[<<string, TRUE>>] = None
       /\ sms_nfa_[<<string, FALSE>>] > 0
  /\ \E string \in Inputs :
       /\ string # <<>>
       /\ string[1] \notin LabelsFrom(Heap, nfa_)
       /\ sms_nfa_[<<string, FALSE>>] = 0

\* C5: the automaton to_dfa returns is deterministic.  No state reachable
\* from dfa_ has an epsilon transition, and every label of such a state leads
\* to exactly one successor.
C5_DfaDeterministic ==
  dfa_ # 0 =>
    \A n \in ReachAll(Heap, {dfa_}) :
      \A i \in 1..Len(nodes[n].items) :
        /\ ~IsEpsilon(nodes[n].items[i].key)
        /\ Len(Elems(Heap, nodes[n].items[i].val)) = 1
        /\ \A j \in 1..Len(nodes[n].items) :
             nodes[n].items[j].key = nodes[n].items[i].key => j = i

C5_Witness ==
  /\ "to_dfa" \in done
  /\ Cardinality(ReachAll(Heap, {dfa_})) > 1
  /\ \E n \in ReachAll(Heap, {nfa_}) : \E a \in Symbols : Len(Matmul(Heap, n, a)) > 1

\* ------------------------------------------------------- claims under Spec

LastCall == calls[Len(calls)]

Mutators == {"setitem", "delitem", "append"}

\* The heap with no table attached to any state: what the lazy back-end
\* answers from.
Uncompiled(h) ==
  [h EXCEPT !.nodes = [n \in DOMAIN h.nodes |-> [h.nodes[n] EXCEPT !.hasCompiled = FALSE]]]

\* The answers of the loop over the table t started at state n.
TableMatches(t, n) ==
  [c \in Cases |-> CallCompiled(t, {n}, c[1], c[2], 0, {})]

\* C6: stale table.  In every step other than self.compile() on a state
\* that holds a table (an insertion, replacement, deletion or append anywhere
\* in the heap among them), the state keeps the same table, and its match for
\* every string and both values of full is the same after the step as before
\* it and is the answer of the loop over that table.
C6_TableNotInvalidated ==
  [][\A n \in Ids :
       (nodes[n].hasCompiled /\ calls' # Append(calls, [op |-> "compile", self |-> n]))
         => /\ nodes'[n].hasCompiled
            /\ nodes'[n].compiled = nodes[n].compiled
            /\ Matches(Heap', n) = Matches(Heap, n)
            /\ Matches(Heap', n) = TableMatches(nodes[n].compiled, n)]_vars

\* A state compiled and mutated since, whose match now differs from the match
\* of the graph as it stands.
C6_Witness ==
  /\ calls # <<>>
  /\ LastCall.op \in Mutators
  /\ \E n \in Ids :
       /\ nodes[n].hasCompiled
       /\ nodes[n].compiled.tr # {}
       /\ Matches(Heap, n) # Matches(Uncompiled(Heap), n)

\* C7: acceptance rule.  In every reachable state, a state with no override
\* is accepting exactly when it has no transition, and a state with an
\* override is accepting exactly when the override says so; no step changes
\* whether a state with an override is accepting.
C7_AcceptanceRule ==
  /\ [](\A n \in Ids :
          /\ nodes[n].accept = "unset" => (Accepting(Heap, n) <=> Len(nodes[n].items) = 0)
          /\ nodes[n].accept # "unset" => (Accepting(Heap, n) <=> nodes[n].accept = "accept"))
  /\ [][\A n \in Ids :
          nodes[n].accept # "unset" => Accepting(Heap', n) = Accepting(Heap, n)]_vars

\* Acceptance has flipped both ways under mutation: after an insertion a state
\* without override that holds transitions does not accept, and one emptied
\* by a deletion accepts, next to a force-accepted state that holds
\* transitions.
C7_Witness ==
  /\ calls # <<>>
  /\ LastCall.op = "delitem"
  /\ nodes[LastCall.self].accept = "unset"
  /\ Accepting(Heap, LastCall.self)
  /\ calls[1].op = "setitem"
  /\ \E n \in Ids : nodes[n].accept = "accept" /\ Len(nodes[n].items) > 0
  /\ \E n \in Ids : nodes[n].accept = "unset" /\ ~Accepting(Heap, n)

\* The strings of at most MaxInput labels in which epsilon occurs.
RECURSIVE LabelStrings(_)
LabelStrings(k) ==
  IF k = 0 THEN {<<>>}
  ELSE LET P == LabelStrings(k - 1) IN P \cup {Append(p, e) : p \in P, e \in Labels}

EpsilonInputs == {x \in LabelStrings(MaxInput) : \E i \in 1..Len(x) : IsEpsilon(x[i])}

\* C8: a string in which epsilon occurs raises ValueError, whichever state
\* it is matched from (with or without a table), in both modes and wherever
\* in the string epsilon stands.
C8_EpsilonInputFails ==
  \A n \in Ids : \A x \in EpsilonInputs : \A full \in BOOLEAN :
    Call(Heap, n, x, full, 0) = ValueError

\* Every label of the state n has at least one successor state.
WellFormed(h, n) ==
  \A i \in 1..Len(h.nodes[n].items) : Len(Elems(h, h.nodes[n].items[i].val)) >= 1

Constructors == {"new", "pos", "neg", "invert"}

C10_CompileIdempotent ==
  [][\A n \in Ids :
       (/\ calls # <<>>
        /\ LastCall = [op |-> "compile", self |-> n]
        /\ calls' = Append(calls, [op |-> "compile", self |-> n]))
         => /\ nodes'[n].compiled = nodes[n].compiled
            /\ nodes'[n].states = nodes[n].states
            /\ Len(nodes') = Len(nodes)
            /\ Matches(Heap', n) = Matches(Heap, n)]_vars

\* A state with transitions compiled twice in a row.
C10_Witness ==
  /\ Len(calls) >= 2
  /\ LastCall.op = "compile"
  /\ calls[Len(calls) - 1] = LastCall
  /\ nodes[LastCall.self].compiled.tr # {}
  /\ Len(nodes[LastCall.self].states) > 1

\* The step is the call op on the state self.
IsCall(op, self) == calls' = Append(calls, [op |-> op, self |-> self])

\* The graph reachable from r in the heap h2 is a duplicate of the graph
\* reachable from s in the heap h: a bijection f of the reachable states with
\* f[s] = r carries the labels, the successors under every label in their
\* order and the _accept attribute, and no state reachable from r is a state
\* of h.
Duplicate(h, s, h2, r) ==
  LET R == ReachAll(h, {s})
      R2 == ReachAll(h2, {r})
  IN /\ Cardinality(R2) = Cardinality(R)
     /\ R2 \cap DOMAIN h.nodes = {}
     /\ \E f \in [R -> R2] :
          /\ f[s] = r
          /\ \A u, v \in R : u # v => f[u] # f[v]
          /\ \A u \in R :
               /\ h2.nodes[f[u]].accept = h.nodes[u].accept
               /\ Keys(h2.nodes[f[u]].items) = Keys(h.nodes[u].items)
               /\ \A L \in Labels :
                    Matmul(h2, f[u], L) =
                      [i \in 1..Len(Matmul(h, u, L)) |-> f[Matmul(h, u, L)[i]]]

\* C11: deep copy.  In every step self.copy(), the state returned (the first
\* state the call adds to the heap) is the start of a duplicate of the graph
\* reachable from self: same number of reachable states, same labels,
\* successors in the same order and _accept attributes under a bijection, and
\* no state shared with the heap before the call.
C11_CopyIsomorphic ==
  [][\A s \in Ids : IsCall("copy", s) => Duplicate(Heap, s, Heap', Len(nodes) + 1)]_vars

\* The state the last call, a copy, returned.
CopyRoot == Len(nodes) - Cardinality(ReachAll(Heap, {LastCall.self})) + 1

\* A copy has been taken of a graph of several states with a cycle, in which
\* a state is the successor of two.
C11_Witness ==
  /\ calls # <<>>
  /\ LastCall.op = "copy"
  /\ LET R == ReachAll(Heap, {LastCall.self})
     IN /\ Cardinality(R) >= 2
        /\ LastCall.self \in ReachAll(Heap, Successors(Heap, LastCall.self))
        /\ \E t \in R : Cardinality({u \in R : t \in Successors(Heap, u)}) >= 2
        /\ ReachAll(Heap, {CopyRoot}) \cap R = {}

\* C12: accept mutators.  In every step +self, -self or ~self every state of
\* the heap, self among them, is as before (transitions, _accept attribute,
\* acceptance), and the one state added carries the transitions of self and
\* the new attribute: accept, reject, or the negation of bool(self).
C12_MutatorsCopy ==
  [][\A s \in Ids : \A op \in {"pos", "neg", "invert"} :
       IsCall(op, s) =>
         /\ Len(nodes') = Len(nodes) + 1
         /\ \A n \in Ids : nodes'[n] = nodes[n] /\ Accepting(Heap', n) = Accepting(Heap, n)
         /\ nodes'[Len(nodes')].items = nodes[s].items
         /\ nodes'[Len(nodes')].accept =
              (CASE op = "pos" -> "accept"
                 [] op = "neg" -> "reject"
                 [] op = "invert" -> IF Accepting(Heap, s) THEN "reject" ELSE "accept")]_vars

\* ~self has returned a force-accepted copy of a state that holds
\* transitions, has no _accept attribute and does not accept.
C12_Witness ==
  /\ calls # <<>>
  /\ LastCall.op = "invert"
  /\ nodes[LastCall.self].accept = "unset"
  /\ nodes[LastCall.self].items # <<>>
  /\ ~Accepting(Heap, LastCall.self)
  /\ nodes[Len(nodes)].accept = "accept"
  /\ nodes[Len(nodes)].items = nodes[LastCall.self].items

\* C19: a copy carries no table.  In every step self.copy() no state added
\* has the attribute _compiled or _states, and the match of the copy for
\* every string and both values of full is the match of the lazy back-end on
\* the graph of self as it stands at the call.
C19_CopyWithoutTable ==
  [][\A s \in Ids :
       IsCall("copy", s) =>
         /\ \A n \in (Len(nodes) + 1)..Len(nodes') :
              ~nodes'[n].hasCompiled /\ ~nodes'[n].hasStates
         /\ Matches(Heap', Len(nodes) + 1) = Matches(Uncompiled(Heap), s)]_vars

\* A copy has been taken of a state whose table is stale: the copy matches as
\* the graph stands, the state itself as its table says.
C19_Witness ==
  /\ calls # <<>>
  /\ LastCall.op = "copy"
  /\ nodes[LastCall.self].hasCompiled
  /\ Matches(Heap, LastCall.self) # Matches(Uncompiled(Heap), LastCall.self)
  /\ Matches(Heap, CopyRoot) = Matches(Uncompiled(Heap), LastCall.self)

\* ----------------------------------------------------- claims under SpecFn

Modded == done = {"mod"}

\* C15: epsilon closure.  For every state of every drawn graph, state %
\* epsilon starts with the state, holds exactly the states reachable from it
\* through zero or more epsilon transitions, and holds none of them twice.
C15_ClosureExact ==
  Modded =>
    \A n \in DOMAIN nodes :
      LET closure == mods[<<n, Epsilon>>]
      IN /\ closure[1] = n
         /\ Range(closure) = EpsReach(Heap, {n})
         /\ Len(closure) = Cardinality(Range(closure))

\* The closure has been computed of a state that lies on a cycle of epsilon
\* transitions and holds its epsilon successor as a single state.
C15_Witness ==
  /\ Modded
  /\ \E n \in DOMAIN nodes :
       /\ \E i \in 1..Len(nodes[n].items) :
            nodes[n].items[i].key = Epsilon /\ nodes[n].items[i].val.kind = "nfa"
       /\ n \in EpsReach(Heap, Range(Matmul(Heap, n, Epsilon)))
       /\ Len(mods[<<n, Epsilon>>]) >= 2

\* The states one transition labelled L away from a state of S.
StepOf(h, S, L) == UNION {Range(Matmul(h, v, L)) : v \in S}

\* C16: neighbours.  For every state of every drawn graph and every symbol
\* L, state % L holds exactly the states of the epsilon closures of the
\* L-successors of the states of the epsilon closure of the state, none of
\* them twice.
C16_NeighborsExact ==
  Modded =>
    \A n \in DOMAIN nodes : \A L \in Symbols :
      LET neighbors == mods[<<n, L>>]
      IN /\ Range(neighbors) = EpsReach(Heap, StepOf(Heap, EpsReach(Heap, {n}), L))
         /\ Len(neighbors) = Cardinality(Range(neighbors))

\* Neighbours have been computed of a state that has no transition labelled
\* L itself (the transition leaves a state of its closure), among them a
\* state that is no L-successor but lies in the closure of one.
C16_Witness ==
  /\ Modded
  /\ \E n \in DOMAIN nodes : \E L \in Symbols :
       /\ Matmul(Heap, n, L) = <<>>
       /\ Len(mods[<<n, L>>]) >= 2
       /\ Range(mods[<<n, L>>]) # StepOf(Heap, EpsReach(Heap, {n}), L)

\* The outcomes of a match of the string of the case c that are no error: a
\* length or None.
Outcomes(c) == (0..Len(c[1])) \cup {None}

\* C17: no error.  On every drawn graph, for every string of symbols and
\* both values of full, the match of the graph before it is compiled, once
\* compiled, and of its DFA is a length or None, never the ValueError of
\* max() over an empty collection of lengths.
C17_NoError ==
  \A c \in Cases :
    /\ sms_nfa_[c] \in Outcomes(c)
    /\ sms_nfa_compiled[c] \in Outcomes(c)
    /\ sms_dfa_[c] \in Outcomes(c)

\* Matches have been sampled from the table of a compiled graph: a full match
\* accepted at the end of the string, a prefix match returned when the
\* working set ran empty, and a rejection.
C17_Witness ==
  /\ "sample_compiled" \in done
  /\ \E c \in Cases : c[2] /\ Len(c[1]) > 0 /\ sms_nfa_compiled[c] = Len(c[1])
  /\ \E c \in Cases : ~c[2] /\ sms_nfa_compiled[c] \in 0..(Len(c[1]) - 1)
  /\ \E c \in Cases : sms_nfa_compiled[c] = None

EmptyCases == {<<<<>>, TRUE>>, <<<<>>, FALSE>>}

\* C18 as stated: on every drawn graph whose start state is not accepting,
\* the match of the empty string is None, in both modes and both back-ends.
C18_EmptyRejected ==
  ~Accepting(Heap, nfa_) =>
    \A c \in EmptyCases :
      /\ "sample" \in done => sms_nfa_[c] = None
      /\ "sample_compiled" \in done => sms_nfa_compiled[c] = None

\* C18: empty input.  On every drawn graph, in both modes and both
\* back-ends, the match of the empty string is None when no state of the
\* epsilon closure of the start state is accepting, and 0 when one is (the
\* start state itself need not be).
C18_EmptyByClosure ==
  \A c \in EmptyCases :
    LET expected == IF \E n \in EpsReach(Heap, {nfa_}) : Accepting(Heap, n)
                    THEN 0 ELSE None
    IN /\ "sample" \in done => sms_nfa_[c] = expected
       /\ "sample_compiled" \in done => sms_nfa_compiled[c] = expected

\* The empty string has been rejected by both back-ends on a start state
\* with epsilon transitions to other states, none of them accepting.
C18_Witness ==
  /\ "sample_compiled" \in done
  /\ Cardinality(EpsReach(Heap, {nfa_})) >= 2
  /\ \A c \in EmptyCases : sms_nfa_[c] = None /\ sms_nfa_compiled[c] = None

\* C20: reachable states.  In every step self.states() on a state without a
\* saved state list, the list returned holds exactly the states reachable
\* from self through transitions of any label, self among them, none twice.
C20_StatesReachable ==
  [][\A s \in Ids :
       (IsCall("states", s) /\ ~nodes[s].hasStates) =>
         /\ nodes'[s].hasStates
         /\ Range(nodes'[s].states) = ReachAll(Heap, {s})
         /\ Len(nodes'[s].states) = Cardinality(ReachAll(Heap, {s}))]_vars

\* states() has returned the states of a graph in which one state has only
\* epsilon transitions, one has none, and one is left by a labelled
\* transition of a state of the closure of self.
C20_Witness ==
  /\ calls # <<>>
  /\ LastCall.op = "states"
  /\ LET R == Range(nodes[LastCall.self].states)
     IN /\ \E n \in R : nodes[n].items # <<>> /\ Range(Keys(nodes[n].items)) = {Epsilon}
        /\ \E n \in R : nodes[n].items = <<>>
        /\ R # EpsReach(Heap, {LastCall.self})
        /\ Cardinality(R) >= 3

\* The call has returned.
Returned == run.pc = "done"

\* C13: compile and to_dfa terminate.  On every drawn graph, whatever its
\* cycles, a call of compile or to_dfa that has not returned can take a step
\* within the limit of steps; the frames of compile are nested no deeper
\* than the graph has states, plus the frame that is cut off, because the
\* ids along the path of a frame are distinct; and the call returns what
\* the compiler and the loop of to_dfa compute.
C13_CompileTerminates ==
  run.proc \in {"compile", "to_dfa"} =>
    /\ Returned \/ CanStep
    /\ Len(run.stack) <= GraphNodes + 1
    /\ \A k \in 1..Len(run.stack) :
         LET ids == run.stack[k].ids
         IN /\ Len(ids) = k - 1
            /\ Cardinality(Range(ids)) = Len(ids)
    /\ Returned =>
         LET c == CompileRoot(Heap, nfa_)
         IN /\ nodes[nfa_].compiled = [acc |-> c.acc, tr |-> c.tr]
            /\ nodes[nfa_].states = c.states
            /\ run.proc = "to_dfa" =>
                 run.t_dfa = DfaTable(nodes[nfa_].compiled, {{nfa_}}, {})

\* to_dfa has returned on a graph whose start state has a labelled self-loop
\* and lies on a cycle of epsilon transitions, after more than one pass.
C13_Witness ==
  /\ run.proc = "to_dfa"
  /\ Returned
  /\ \E a \in Symbols : InSeq(Matmul(Heap, nfa_, a), nfa_)
  /\ nfa_ \in EpsReach(Heap, Range(Matmul(Heap, nfa_, Epsilon)))
  /\ run.t_dfa # {}

\* C14: matching terminates.  On every drawn graph, built or compiled, for
\* every input and both modes, a match that has not returned can take a
\* step within the limit of steps; every frame of the lazy back-end is one
\* position ahead of the frame that called it, so no more frames are nested
\* than the input has symbols, plus one; the closure of every frame holds
\* exactly the states reachable over epsilon transitions, none of them
\* twice; and the match returns the value of __call__.
C14_MatchTerminates ==
  run.proc = "call" =>
    /\ Returned \/ CanStep
    /\ Len(run.stack) <= Len(run.string) + 1
    /\ \A k \in 1..Len(run.stack) :
         LET f == run.stack[k]
         IN /\ f.length = k - 1
            /\ Range(f.closure) = EpsReach(Heap, {f.self})
            /\ Cardinality(Range(f.closure)) = Len(f.closure)
    /\ run.pc = "loop" => run.length <= Len(run.string)
    /\ Returned => run.result = Call(Heap, nfa_, run.string, run.full, 0)

\* The lazy back-end has returned a match of the whole of an input on a
\* graph whose start state lies on a cycle of epsilon transitions.
C14_Witness ==
  /\ run.proc = "call"
  /\ Returned
  /\ ~nodes[nfa_].hasCompiled
  /\ run.full
  /\ run.string # <<>>
  /\ run.result = Len(run.string)
  /\ nfa_ \in EpsReach(Heap, Range(Matmul(Heap, nfa_, Epsilon)))

\* A successors value as the specification admits it: a state, or a list or
\* tuple that is not empty and holds states only.
StateOrStates(value) ==
  \/ value.kind = "nfa" /\ value.ref \in Ids
  \/ /\ value.kind \in {"list", "tuple"}
     /\ value.elts # <<>>
     /\ \A i \in 1..Len(value.elts) : value.elts[i] \in Ids

\* C21: constructor validation.  Every call nfa({key: value}) with a value
\* that is neither a state nor a non-empty list or tuple of states fails and
\* leaves the states and the lists of the heap as they were; with a state, a
\* non-empty list of states or a non-empty tuple of states it returns one new
\* state whose only label leads to exactly the states of the value.
C21_InvalidValueRejected ==
  [][\A key \in MutationLabels, value \in ArgumentValues :
       New(key, value) =>
         IF StateOrStates(value)
         THEN /\ calls'[Len(calls')].op = "new"
              /\ Len(nodes') = Len(nodes) + 1
              /\ SubSeq(nodes', 1, Len(nodes)) = nodes
              /\ Len(nodes'[Len(nodes')].items) = 1
              /\ nodes'[Len(nodes')].items[1].key = key
              /\ Elems(Heap', nodes'[Len(nodes')].items[1].val) =
                   (IF value.kind = "nfa" THEN <<value.ref>> ELSE value.elts)
         ELSE /\ calls'[Len(calls')].op = "TypeError"
              /\ nodes' = nodes
              /\ lists' = lists]_vars

\* The constructor has failed and, called again with a tuple of one state,
\* has returned a new state.
C21_Witness ==
  /\ Len(calls) = 2
  /\ calls[1].op = "TypeError"
  /\ calls[2].op = "new"
  /\ nodes[Len(nodes)].items # <<>>
  /\ nodes[Len(nodes)].items[1].val.kind = "tuple"

\* Whenever a string matches with full = True, it matches with full = False
\* with a length that is no less, which is the length of the string.
PrefixAtLeastFull(sms) ==
  \A string \in Inputs :
    sms[<<string, TRUE>>] # None =>
      /\ sms[<<string, FALSE>>] # None
      /\ sms[<<string, FALSE>>] >= sms[<<string, TRUE>>]
      /\ sms[<<string, FALSE>>] = Len(string)

\* C22: prefix monotonicity.  On every drawn graph and for every string, in
\* the lazy and in the compiled back-end, a match of length n with
\* full = True implies a match of at least n, and so of the length of the
\* string, with full = False.
C22_PrefixMonotone ==
  /\ Sampled => PrefixAtLeastFull(sms_nfa_)
  /\ SampledCompiled => PrefixAtLeastFull(sms_nfa_compiled)

\* Both back-ends have matched the whole of a string of MaxInput symbols of
\* which a shorter prefix matches as well.
C22_Witness ==
  /\ SampledCompiled
  /\ \E string \in Inputs :
       /\ Len(string) = MaxInput
       /\ sms_nfa_[<<string, TRUE>>] = MaxInput
       /\ sms_nfa_compiled[<<string, TRUE>>] = MaxInput
       /\ sms_nfa_compiled[<<string, FALSE>>] = MaxInput
       /\ \E k \in 0..(MaxInput - 1) : sms_nfa_[<<Prefix(string, k), TRUE>>] = k

\* The symbols of a user: those of the alphabet, and a plain object.
UserSymbols == Symbols \cup {Object}

\* C23: the epsilon marker equals only itself.  No user symbol compares
\* equal to epsilon, and so for every state of the heap and every user
\* symbol, once the state has a transition to itself under the symbol,
\* compile enters the transition in the table and a match of the symbol from
\* the state does not raise the error of an epsilon in the input.
C23_MarkerDistinct ==
  \A symbol \in UserSymbols :
    /\ ~IsEpsilon(symbol)
    /\ \A n \in Ids :
         LET h == [nodes |-> SetItemNodes(Heap, n, symbol, NfaValue(n)), lists |-> lists]
         IN /\ <<symbol, n, n>> \in CompileRoot(h, n).tr
            /\ Call(h, n, <<symbol>>, FALSE, 0) # ValueError

\* The states compile() visits: the start state and the targets of the
\* transitions under a symbol of the states reachable from it.
TableStates ==
  {nfa_} \cup UNION {StepOf(Heap, ReachAll(Heap, {nfa_}), L) : L \in Symbols}

\* C24: the compiled table.  Once the start state of a drawn graph carries
\* its table, every state u that compile() visits is accepting in the table
\* exactly when its epsilon closure holds an accepting state, and for every
\* symbol L the entry (L, u) is the set of the L-successors of the states of
\* the closure of u, absent when there is none; no entry is labelled epsilon.
C24_TableContent ==
  nodes[nfa_].hasCompiled =>
    LET t == nodes[nfa_].compiled
    IN /\ \A u \in TableStates :
            /\ u \in t.acc <=> \E v \in EpsReach(Heap, {u}) : Accepting(Heap, v)
            /\ \A L \in Symbols :
                 {e[3] : e \in {e \in t.tr : e[1] = L /\ e[2] = u}} =
                   StepOf(Heap, EpsReach(Heap, {u}), L)
       /\ \A e \in t.tr : e[1] # Epsilon

\* The table of a start state that is accepting in the table without being
\* an accepting state, and has an entry under a symbol that labels none of
\* its own transitions.
C24_Witness ==
  /\ nodes[nfa_].hasCompiled
  /\ nfa_ \in nodes[nfa_].compiled.acc
  /\ ~Accepting(Heap, nfa_)
  /\ \E e \in nodes[nfa_].compiled.tr : e[2] = nfa_ /\ Matmul(Heap, nfa_, e[1]) = <<>>

\* C25: recompiling refreshes the table.  In every step self.compile() on a
\* state that holds a table already, whatever has been done to the graph
\* since that table was built, the table of the state after the step is the
\* one compiled from the graph as it is now, and the match of the state for
\* every string and both values of full is the match of the lazy back-end
\* on that graph.
C25_RecompileRefreshes ==
  [][\A n \in Ids :
       (nodes[n].hasCompiled /\ IsCall("compile", n)) =>
         LET c == CompileRoot(Heap, n)
         IN /\ nodes'[n].hasCompiled
            /\ nodes'[n].compiled = [acc |-> c.acc, tr |-> c.tr]
            /\ nodes'[n].states = c.states
            /\ Matches(Heap', n) = Matches(Uncompiled(Heap'), n)]_vars

\* The state zeros of the example, compiled, then mutated, then compiled
\* again: its match is no longer the answer of the table it had.
C25_Witness ==
  /\ Len(calls) = 2
  /\ calls[1].op \in Mutators
  /\ calls[2] = [op |-> "compile", self |-> 2]
  /\ Matches(Heap, 2) # TableMatches(ZerosCompiled.nodes[2].compiled, 2)
  /\ Matches(Heap, 2) = Matches(Uncompiled(Heap), 2)

\* The steps +self, -self and ~self that return a copy.
ShallowCopies == {"pos", "neg", "invert"}

\* C26: shallow copy.  The copy +self, -self or ~self returns holds, under
\* the same labels, the very values of self: the same states and the same
\* list objects, no state and no list being added besides the copy, so that
\* a transition from self to self is a transition from the copy to self.
\* An append to a list is seen from every state that holds that list, and an
\* insertion, replacement or deletion on one state leaves the labels and
\* values of every other state as they were.
C26_ShallowCopyShares ==
  [][\A n \in Ids :
       /\ (\E op \in ShallowCopies : IsCall(op, n)) =>
            /\ Len(nodes') = Len(nodes) + 1
            /\ lists' = lists
            /\ nodes'[Len(nodes')].items = nodes[n].items
            /\ \A L \in Labels :
                 /\ Matmul(Heap', Len(nodes'), L) = Matmul(Heap, n, L)
                 /\ Len(nodes') \notin Range(Matmul(Heap', Len(nodes'), L))
       /\ IsCall("append", n) =>
            \E i \in 1..Len(nodes[n].items) : \E state \in Ids :
              /\ Elems(Heap', nodes[n].items[i].val) =
                   Append(Elems(Heap, nodes[n].items[i].val), state)
              /\ \A m \in Ids : \A j \in 1..Len(nodes[m].items) :
                   Elems(Heap', nodes[m].items[j].val) =
                     IF nodes[m].items[j].val = nodes[n].items[i].val
                     THEN Append(Elems(Heap, nodes[m].items[j].val), state)
                     ELSE Elems(Heap, nodes[m].items[j].val)
       /\ (IsCall("setitem", n) \/ IsCall("delitem", n)) =>
            \A m \in Ids \ {n} :
              /\ nodes'[m].items = nodes[m].items
              /\ \A L \in Labels : Matmul(Heap', m, L) = Matmul(Heap, m, L)]_vars

\* The state zeros of the example, which leads to itself through a list, has
\* been copied, and a state appended to the list through the copy: the copy
\* and zeros have the same three successors, zeros among them.
C26_Witness ==
  /\ Len(calls) = 2
  /\ calls[1].op \in ShallowCopies
  /\ calls[1].self = 2
  /\ calls[2] = [op |-> "append", self |-> Len(nodes)]
  /\ Len(nodes) = 3
  /\ nodes[3].items = nodes[2].items
  /\ Len(Matmul(Heap, 3, "a")) = 3
  /\ Matmul(Heap, 2, "a") = Matmul(Heap, 3, "a")
  /\ 2 \in Range(Matmul(Heap, 3, "a"))

\* The calls that compile a state that has no table.
Compiling == {"to_dfa", "states", "symbols"}

\* C27: to_dfa, states and symbols compile.  Every step self.to_dfa(),
\* self.states() or self.symbols() on a state without a table leaves on the
\* state the table and the state list that self.compile() would leave, and
\* changes no other state of the heap (to_dfa adds the states of the DFA);
\* from then on the match of the state is the answer of the loop over that
\* table, and a mutation that follows the call changes neither the table nor
\* the match of the state for any string.
C27_CompiledOnDemand ==
  [][\A n \in Ids :
       /\ (/\ ~nodes[n].hasCompiled
           /\ ~nodes[n].hasStates
           /\ \E op \in Compiling : IsCall(op, n)) =>
            /\ nodes'[n].hasCompiled
            /\ nodes'[n].hasStates
            /\ SubSeq(nodes', 1, Len(nodes)) = Compile(Heap, n)
            /\ IsCall("to_dfa", n) \/ Len(nodes') = Len(nodes)
            /\ Matches(Heap', n) = TableMatches(nodes'[n].compiled, n)
       /\ (/\ calls # <<>>
           /\ LastCall.op \in Compiling
           /\ LastCall.self = n
           /\ \E op \in Mutators : \E m \in Ids : IsCall(op, m)) =>
            /\ nodes'[n].compiled = nodes[n].compiled
            /\ Matches(Heap', n) = Matches(Heap, n)]_vars

\* The state first of the example, which has no table, has been compiled by
\* to_dfa, states or symbols and the graph mutated since: the match of first
\* differs from the match of the graph as it stands.
C27_Witness ==
  /\ Len(calls) = 2
  /\ calls[1].op \in Compiling
  /\ calls[1].self = 3
  /\ calls[2].op \in Mutators
  /\ nodes[2].accept = "accept"
  /\ nodes[3].hasCompiled
  /\ Matches(Heap, 3) # Matches(Uncompiled(Heap), 3)

\* C28: to_dfa, states and symbols do not recompile.  Every step
\* self.to_dfa(), self.states() or self.symbols() on a state that holds a
\* table and a state list leaves both, and every state of the heap, as they
\* were, whatever has been done to the graph since they were built: the
\* states returned are the list saved, the symbols returned those of the
\* table saved, and the DFA returned matches every string as the loop over
\* the table saved does.
C28_NoRecompile ==
  [][\A n \in Ids :
       (/\ nodes[n].hasCompiled
        /\ nodes[n].hasStates
        /\ \E op \in Compiling : IsCall(op, n)) =>
         /\ SubSeq(nodes', 1, Len(nodes)) = nodes
         /\ nodes'[n].states = nodes[n].states
         /\ TableSymbols(nodes'[n].compiled) = TableSymbols(nodes[n].compiled)
         /\ IsCall("to_dfa", n) =>
              Matches(Heap', dfa_') = TableMatches(nodes[n].compiled, n)]_vars

\* The compiled state zeros of the example has been mutated and to_dfa
\* called on it: the table is the one zeros had, its symbols are not the
\* labels of the graph as it stands, and the DFA does not match as the graph
\* does.
C28_Witness ==
  /\ Len(calls) = 2
  /\ calls[1].op \in Mutators
  /\ calls[2] = [op |-> "to_dfa", self |-> 2]
  /\ nodes[2].compiled = ZerosCompiled.nodes[2].compiled
  /\ TableSymbols(nodes[2].compiled) # LabelsFrom(Heap, 2)
  /\ Matches(Heap, dfa_) # Matches(Uncompiled(Heap), 2)
  /\ Matches(Heap, dfa_) = Matches(ZerosCompiled, 2)

RECURSIVE Answer(_, _, _, _, _)
\* The match of string from position k on, from the state n: the answer of
\* the table of n when n holds one; otherwise, at the end of the string, k
\* when the epsilon closure of n holds an accepting state, and before the end
\* the greatest of the answers of the successors of the closure under the
\* next symbol at position k + 1 and, with full = False, of k itself when the
\* closure holds an accepting state.
Answer(h, n, string, full, k) ==
  LET closure == EpsReach(h, {n})
      accepts == \E v \in closure : Accepting(h, v)
  IN IF h.nodes[n].hasCompiled
     THEN CallCompiled(h.nodes[n].compiled, {n}, string, full, k, {})
     ELSE IF k = Len(string) THEN (IF accepts THEN k ELSE None)
     ELSE MaxDefault(
            ({Answer(h, w, string, full, k + 1) : w \in StepOf(h, closure, string[k + 1])}
               \ {None})
              \cup (IF ~full /\ accepts THEN {k} ELSE {}),
            None)

\* C29: the back-end is chosen state by state.  In every reachable heap, for
\* every state without a table and every string whose first symbol leads
\* from the epsilon closure of the state to a state with a table, the match
\* is made of the answers of the successors, and a successor that holds a
\* table answers from its table at the position reached, whatever the graph
\* below it has become.
C29_BackendPerState ==
  (\E w \in Ids : nodes[w].hasCompiled) =>
    \A n \in Ids : \A L \in Symbols :
      (/\ ~nodes[n].hasCompiled
       /\ \E w \in StepOf(Heap, EpsReach(Heap, {n}), L) : nodes[w].hasCompiled) =>
        \A c \in Cases :
          (c[1] # <<>> /\ c[1][1] = L) =>
            Call(Heap, n, c[1], c[2], 0) = Answer(Heap, n, c[1], c[2], 0)

\* A state without a table leads under a symbol to a state whose table is
\* stale, and for some string its match is the one the stale table gives,
\* not the one of the graph as it stands.
C29_Witness ==
  \E n \in Ids : \E w \in Ids \ {n} : \E c \in Cases :
    /\ ~nodes[n].hasCompiled
    /\ nodes[w].hasCompiled
    /\ Len(c[1]) = MaxInput
    /\ w \in StepOf(Heap, EpsReach(Heap, {n}), c[1][1])
    /\ Matches(Heap, w) # Matches(Uncompiled(Heap), w)
    /\ Call(Heap, n, c[1], c[2], 0) # Call(Uncompiled(Heap), n, c[1], c[2], 0)
    /\ Call(Heap, n, c[1], c[2], 0) =
         CallCompiled(nodes[w].compiled, {w}, c[1], c[2], 1, {})

RECURSIVE TableEnds(_, _, _, _)
\* The states the table t leads to from the states ids over the symbols of
\* string after position k.
TableEnds(t, ids, string, k) ==
  IF k = Len(string) THEN ids
  ELSE TableEnds(t, {e[3] : e \in {e \in t.tr : e[1] = string[k + 1] /\ e[2] \in ids}},
                 string, k + 1)

\* C30: to_dfa leaves the graph alone and returns new states.  In the step
\* dfa_ = nfa_.to_dfa() on a drawn graph, every state of the graph keeps its
\* labels, its successors and its override, and no list changes; no state
\* reachable from dfa_ is a state of the graph; every state reachable from
\* dfa_ has an override, and the state reached from dfa_ over a string is
\* forced to accept exactly when the table of nfa_ leads over that string to
\* a state that is accepting in the table, and forced to reject otherwise.
C30_ToDfaFresh ==
  [][("to_dfa" \notin done /\ "to_dfa" \in done') =>
       LET t == nodes'[nfa_].compiled
           D == ReachAll(Heap', {dfa_'})
       IN /\ lists' = lists
          /\ \A m \in DOMAIN nodes :
               /\ nodes'[m].items = nodes[m].items
               /\ nodes'[m].accept = nodes[m].accept
          /\ D \cap DOMAIN nodes = {}
          /\ \A d \in D : nodes'[d].accept \in {"accept", "reject"}
          /\ \A string \in Inputs : \A d \in EndsOf(Heap', {dfa_'}, string, 0) :
               nodes'[d].accept = "accept"
                 <=> \E u \in TableEnds(t, {nfa_}, string, 0) : u \in t.acc]_vars

\* to_dfa has returned a DFA with a state forced to accept and a state forced
\* to reject, for a graph that has a state with an override and a state
\* without one.
C30_Witness ==
  /\ "to_dfa" \in done
  /\ \E d \in ReachAll(Heap, {dfa_}) : nodes[d].accept = "accept"
  /\ \E d \in ReachAll(Heap, {dfa_}) : nodes[d].accept = "reject"
  /\ \E m \in ReachAll(Heap, {nfa_}) : nodes[m].accept # "unset"
  /\ \E m \in ReachAll(Heap, {nfa_}) : nodes[m].accept = "unset" /\ nodes[m].items # <<>>
  /\ ReachAll(Heap, {dfa_}) \cap ReachAll(Heap, {nfa_}) = {}

====
